---------------------------- MODULE Spec2Model ----------------------------
(***************************************************************************)
(* Model of bfc.c, a Brainfuck to x86-64 (AT&T) compiler.                  *)
(*                                                                         *)
(* The process state is the Source (code, position), the Compiler          *)
(* (output, label_counter, loop_stack, loop_stack_top, loop_stack_size),   *)
(* what was written to stderr, and where the process is (pc, exit_status). *)
(* The C functions are operators over a record m holding that state; the   *)
(* actions apply them to the variables, one action per kind of iteration   *)
(* of the loop of compile().                                               *)
(*                                                                         *)
(* A source byte is a one-character string; NUL stands for the byte 0x00.  *)
(* An output line is a tuple <<format, arg, ...>>: the format string of    *)
(* the fprintf call that wrote it (without its newlines and with %% read   *)
(* as %), followed by its integer arguments.                               *)
(***************************************************************************)
EXTENDS Integers, Sequences, FiniteSets, TLC

VARIABLES code, position, output, label_counter, loop_stack, loop_stack_top,
          loop_stack_size, stderr, pc, exit_status

vars == <<code, position, output, label_counter, loop_stack, loop_stack_top,
          loop_stack_size, stderr, pc, exit_status>>

---------------------------------------------------------------------------
(* Bounds of the model *)

\* every byte sequence of at most MaxLen bytes is an input
MaxLen == 3
\* every sequence of at most MaxBracketLen bytes over '[', ']', '+' is an input
MaxBracketLen == 6
\* every sequence of at most MaxFoldLen bytes over '+', '-', 'x' is an input
MaxFoldLen == 6
\* runs of MaxRun - 2 .. MaxRun identical repeatable bytes are inputs
MaxRun == 257
\* the emitted program and the reference interpreter are compared for
\* MaxSteps instructions
MaxSteps == 40
\* MaxNest - 1 and MaxNest '[' in a row, left open or all closed, are inputs
MaxNest == 101

---------------------------------------------------------------------------
(* Bytes *)

NUL == "NUL"
Repeatable == {"+", "-", ">", "<"}
Instructions == {"+", "-", ">", "<", ".", ",", "[", "]"}
Noise == {"x"}
Bytes == Instructions \cup Noise \cup {NUL}

\* strchr("+-><.,[]", ch) != NULL.  strchr also finds the terminating zero
\* byte of the string, so it is non-NULL for ch = 0x00.
strchr(ch) == ch \in Instructions \/ ch = NUL

---------------------------------------------------------------------------
(* The C functions, over the process state m *)

fprintf(m, line) == [m EXCEPT !.output = Append(@, line)]

\* error() leaving with exit(0)
error_exit_0(m, msg, pos) ==
    [m EXCEPT !.stderr = Append(@, <<"Error at position %d: %s", pos, msg>>),
              !.pc = "exited",
              !.exit_status = 0]

\* error(): a line on stderr, then exit(1)
error(m, msg, pos) ==
    [m EXCEPT !.stderr = Append(@, <<"Error at position %d: %s", pos, msg>>),
              !.pc = "exited",
              !.exit_status = 1]

\* the fields create_compiler and read_source set
create_compiler ==
    [position |-> 0, output |-> <<>>, label_counter |-> 0,
     loop_stack |-> <<>>, loop_stack_top |-> -1, loop_stack_size |-> 100,
     stderr |-> <<>>, pc |-> "start", exit_status |-> -1]

\* loop_stack[i] = v; the array is a function on the slots written so far
Store(a, i, v) == [j \in (DOMAIN a) \cup {i} |-> IF j = i THEN v ELSE a[j]]

\* push_loop storing at the top slot without moving the top
push_loop_no_increment(m, label) ==
    LET g == IF m.loop_stack_top >= m.loop_stack_size - 1
             THEN [m EXCEPT !.loop_stack_size = @ * 2]
             ELSE m
    IN  [g EXCEPT !.loop_stack = Store(@, g.loop_stack_top, label)]

\* push_loop growing the array one push too late
push_loop_late_grow(m, label) ==
    LET g == IF m.loop_stack_top > m.loop_stack_size - 1
             THEN [m EXCEPT !.loop_stack_size = @ * 2]
             ELSE m
        top == g.loop_stack_top + 1
    IN  [g EXCEPT !.loop_stack_top = top,
                  !.loop_stack = Store(@, top, label)]

push_loop(m, label) ==
    LET g == IF m.loop_stack_top >= m.loop_stack_size - 1
             THEN [m EXCEPT !.loop_stack_size = @ * 2]
             ELSE m
        top == g.loop_stack_top + 1
    IN  [g EXCEPT !.loop_stack_top = top,
                  !.loop_stack = Store(@, top, label)]

\* pop_loop without the test for an empty stack
pop_loop_unchecked(m) ==
    [m |-> [m EXCEPT !.loop_stack_top = @ - 1],
     ret |-> IF m.loop_stack_top \in DOMAIN m.loop_stack
             THEN m.loop_stack[m.loop_stack_top] ELSE 0]

\* pop_loop returning the label allocated last instead of the top of the stack
pop_loop_last_label(m) ==
    IF m.loop_stack_top < 0
    THEN [m |-> error(m, "Unmatched ']'", 0), ret |-> 0]
    ELSE [m |-> [m EXCEPT !.loop_stack_top = @ - 1],
          ret |-> m.label_counter - 1]

\* the state after pop_loop and the value it returns (error() does not return)
pop_loop(m) ==
    IF m.loop_stack_top < 0
    THEN [m |-> error(m, "Unmatched ']'", 0), ret |-> 0]
    ELSE [m |-> [m EXCEPT !.loop_stack_top = @ - 1],
          ret |-> m.loop_stack[m.loop_stack_top]]

\* next_label without the increment
next_label_no_increment(m) == [m |-> m, ret |-> m.label_counter]

next_label(m) ==
    [m |-> [m EXCEPT !.label_counter = @ + 1], ret |-> m.label_counter]

MEMORY_SIZE == 30000

HeaderLines ==
    << <<"    .section .data">>,
       <<"memory:">>,
       <<"    .zero %d", MEMORY_SIZE>>,
       <<"    .section .text">>,
       <<"    .globl _start">>,
       <<"_start:">>,
       <<"    # Initialize data pointer in r12">>,
       <<"    leaq memory(%rip), %r12">> >>

FooterLines ==
    << <<"    # Exit program">>,
       <<"    movq $60, %rax      # sys_exit">>,
       <<"    xorq %rdi, %rdi    # exit code 0">>,
       <<"    syscall">> >>

emit_header(m) == [m EXCEPT !.output = @ \o HeaderLines]

\* emit_footer writing at the start of the file
emit_footer_rewind(m) == [m EXCEPT !.output = FooterLines \o @]

emit_footer(m) == [m EXCEPT !.output = @ \o FooterLines]

OutputLines ==
    << <<"    # Output character (.)">>,
       <<"    movq $1, %rax       # sys_write">>,
       <<"    movq $1, %rdi       # stdout">>,
       <<"    movq %r12, %rsi    # buffer">>,
       <<"    movq $1, %rdx       # length">>,
       <<"    syscall">> >>

InputLines ==
    << <<"    # Input character (,)">>,
       <<"    movq $0, %rax       # sys_read">>,
       <<"    movq $0, %rdi       # stdin">>,
       <<"    movq %r12, %rsi    # buffer">>,
       <<"    movq $1, %rdx       # length">>,
       <<"    syscall">> >>

\* compile_instruction with a default case that reports the byte
compile_instruction_default_error(m, instruction) ==
    CASE instruction = "+" -> fprintf(m, <<"    incb (%r12)         # +">>)
      [] instruction = "-" -> fprintf(m, <<"    decb (%r12)         # -">>)
      [] instruction = ">" -> fprintf(m, <<"    incq %r12           # >">>)
      [] instruction = "<" -> fprintf(m, <<"    decq %r12           # <">>)
      [] instruction = "." -> [m EXCEPT !.output = @ \o OutputLines]
      [] instruction = "," -> [m EXCEPT !.output = @ \o InputLines]
      [] instruction = "[" ->
            LET n == next_label(m)
                p == push_loop(n.m, n.ret)
            IN  [p EXCEPT !.output = @ \o
                    << <<"loop_start_%d:           # [", n.ret>>,
                       <<"    cmpb $0, (%r12)">>,
                       <<"    je loop_end_%d", n.ret>> >>]
      [] instruction = "]" ->
            LET p == pop_loop(m)
            IN  IF p.m.pc = "exited"
                THEN p.m
                ELSE [p.m EXCEPT !.output = @ \o
                        << <<"    cmpb $0, (%r12)">>,
                           <<"    jne loop_start_%d    # ]", p.ret>>,
                           <<"loop_end_%d:", p.ret>> >>]
      [] OTHER -> error(m, "Unknown instruction", 0)

compile_instruction(m, instruction) ==
    CASE instruction = "+" -> fprintf(m, <<"    incb (%r12)         # +">>)
      [] instruction = "-" -> fprintf(m, <<"    decb (%r12)         # -">>)
      [] instruction = ">" -> fprintf(m, <<"    incq %r12           # >">>)
      [] instruction = "<" -> fprintf(m, <<"    decq %r12           # <">>)
      [] instruction = "." -> [m EXCEPT !.output = @ \o OutputLines]
      [] instruction = "," -> [m EXCEPT !.output = @ \o InputLines]
      [] instruction = "[" ->
            LET n == next_label(m)
                p == push_loop(n.m, n.ret)
            IN  [p EXCEPT !.output = @ \o
                    << <<"loop_start_%d:           # [", n.ret>>,
                       <<"    cmpb $0, (%r12)">>,
                       <<"    je loop_end_%d", n.ret>> >>]
      [] instruction = "]" ->
            LET p == pop_loop(m)
            IN  IF p.m.pc = "exited"
                THEN p.m
                ELSE [p.m EXCEPT !.output = @ \o
                        << <<"    cmpb $0, (%r12)">>,
                           <<"    jne loop_start_%d    # ]", p.ret>>,
                           <<"loop_end_%d:", p.ret>> >>]
      [] OTHER -> m

\* count_repeats that stops counting at 2
count_repeats_capped(src, pos, instruction) ==
    LET stop == CHOOSE p \in pos..Len(src) :
                    /\ p = Len(src) \/ src[p + 1] # instruction
                    /\ \A q \in pos..(p - 1) : src[q + 1] = instruction
    IN  IF stop - pos > 2 THEN 2 ELSE stop - pos

\* the while loop stops at the first pos that is the end of the source or
\* holds another byte; count is the distance walked
count_repeats(src, pos, instruction) ==
    LET stop == CHOOSE p \in pos..Len(src) :
                    /\ p = Len(src) \/ src[p + 1] # instruction
                    /\ \A q \in pos..(p - 1) : src[q + 1] = instruction
    IN  stop - pos

\* compile_optimized folding every instruction that repeats, not only + - > <
compile_optimized_fold_all(src, m, instruction) ==
    LET count == count_repeats(src, m.position, instruction)
    IN  IF count > 1
        THEN LET e == CASE instruction = "+" ->
                            fprintf(m, <<"    addb $%d, (%r12)    # + x%d", count, count>>)
                        [] instruction = "-" ->
                            fprintf(m, <<"    subb $%d, (%r12)    # - x%d", count, count>>)
                        [] instruction = ">" ->
                            fprintf(m, <<"    addq $%d, %r12      # > x%d", count, count>>)
                        [] instruction = "<" ->
                            fprintf(m, <<"    subq $%d, %r12      # < x%d", count, count>>)
                        [] OTHER -> m
             IN  [e EXCEPT !.position = @ + count - 1]
        ELSE compile_instruction(m, instruction)

\* compile_optimized without "src->position += count - 1"
compile_optimized_no_advance(src, m, instruction) ==
    LET count == count_repeats(src, m.position, instruction)
    IN  IF count > 1 /\ instruction \in Repeatable
        THEN CASE instruction = "+" ->
                    fprintf(m, <<"    addb $%d, (%r12)    # + x%d", count, count>>)
               [] instruction = "-" ->
                    fprintf(m, <<"    subb $%d, (%r12)    # - x%d", count, count>>)
               [] instruction = ">" ->
                    fprintf(m, <<"    addq $%d, %r12      # > x%d", count, count>>)
               [] instruction = "<" ->
                    fprintf(m, <<"    subq $%d, %r12      # < x%d", count, count>>)
        ELSE compile_instruction(m, instruction)

compile_optimized(src, m, instruction) ==
    LET count == count_repeats(src, m.position, instruction)
    IN  IF count > 1 /\ instruction \in Repeatable
        THEN LET e == CASE instruction = "+" ->
                            fprintf(m, <<"    addb $%d, (%r12)    # + x%d", count, count>>)
                        [] instruction = "-" ->
                            fprintf(m, <<"    subb $%d, (%r12)    # - x%d", count, count>>)
                        [] instruction = ">" ->
                            fprintf(m, <<"    addq $%d, %r12      # > x%d", count, count>>)
                        [] instruction = "<" ->
                            fprintf(m, <<"    subq $%d, %r12      # < x%d", count, count>>)
             IN  [e EXCEPT !.position = @ + count - 1]
        ELSE compile_instruction(m, instruction)

\* one iteration of the while loop of compile()
compile_iteration(src, m) ==
    LET ch == src[m.position + 1]
        d  == IF strchr(ch) THEN compile_optimized(src, m, ch) ELSE m
    IN  IF d.pc = "exited" THEN d ELSE [d EXCEPT !.position = @ + 1]

\* compile() after its loop, without the unmatched '[' check
compile_end_unchecked(m) == [emit_footer(m) EXCEPT !.pc = "compiled"]

\* compile() after its loop: the unmatched '[' check and the footer
compile_end(m) ==
    IF m.loop_stack_top >= 0
    THEN error(m, "Unmatched '['", 0)
    ELSE [emit_footer(m) EXCEPT !.pc = "compiled"]

\* main() after compile() returned
main_return(m) == [m EXCEPT !.pc = "exited", !.exit_status = 0]

RECURSIVE compile_loop(_, _)
compile_loop(src, m) ==
    IF m.pc # "scan" THEN m
    ELSE IF m.position < Len(src)
         THEN compile_loop(src, compile_iteration(src, m))
         ELSE compile_end(m)

\* compile(), as a function of the source
compile(src) == compile_loop(src, [emit_header(create_compiler) EXCEPT !.pc = "scan"])

---------------------------------------------------------------------------
(* The state machine *)

Cur ==
    [position |-> position, output |-> output, label_counter |-> label_counter,
     loop_stack |-> loop_stack, loop_stack_top |-> loop_stack_top,
     loop_stack_size |-> loop_stack_size, stderr |-> stderr, pc |-> pc,
     exit_status |-> exit_status]

Becomes(m) ==
    /\ position' = m.position
    /\ output' = m.output
    /\ label_counter' = m.label_counter
    /\ loop_stack' = m.loop_stack
    /\ loop_stack_top' = m.loop_stack_top
    /\ loop_stack_size' = m.loop_stack_size
    /\ stderr' = m.stderr
    /\ pc' = m.pc
    /\ exit_status' = m.exit_status
    /\ UNCHANGED code

Rep(ch, n) == [i \in 1..n |-> ch]

SeqsUpTo(S, n) == UNION {[1..k -> S] : k \in 0..n}

LongRuns ==
    {Rep(a, n) \o t : a \in Repeatable, n \in (MaxRun - 2)..MaxRun,
                      t \in {<<>>} \cup {<<b>> : b \in Repeatable}}

\* loops nested deeper than the first capacity of the loop stack
DeepNests ==
    {Rep("[", MaxNest - 1), Rep("[", MaxNest),
     Rep("[", MaxNest) \o Rep("]", MaxNest)}

\* programs whose loops run: clear, move, siblings in a parent, wraparound
LoopPrograms ==
    { <<"+", "[", "-", "]">>,
      <<"+", "+", "[", "-", ">", "+", "+", "<", "]", ">", "-">>,
      <<"+", "[", "[", "-", "]", "+", "+", "[", "-", "]", "]">>,
      <<"+", "+", "x", "[", ">", "+", "[", "-", "]", "<", NUL, "-", "]">>,
      <<"-", "-", "[", "+", "]", "+">>,
      <<"[", "+", "]", "-", "[", "[", "+", "]", "]">> }

Programs ==
    SeqsUpTo(Bytes, MaxLen) \cup SeqsUpTo({"[", "]", "+"}, MaxBracketLen)
        \cup SeqsUpTo({"+", "-", "x"}, MaxFoldLen) \cup LongRuns
        \cup DeepNests \cup LoopPrograms

Init ==
    /\ code \in Programs
    /\ position = create_compiler.position
    /\ output = create_compiler.output
    /\ label_counter = create_compiler.label_counter
    /\ loop_stack = create_compiler.loop_stack
    /\ loop_stack_top = create_compiler.loop_stack_top
    /\ loop_stack_size = create_compiler.loop_stack_size
    /\ stderr = create_compiler.stderr
    /\ pc = create_compiler.pc
    /\ exit_status = create_compiler.exit_status

Scanning == pc = "scan" /\ position < Len(code)
ch == code[position + 1]

EmitHeader ==
    /\ pc = "start"
    /\ Becomes([emit_header(Cur) EXCEPT !.pc = "scan"])

SkipByte ==
    /\ Scanning
    /\ ~strchr(ch)
    /\ Becomes(compile_iteration(code, Cur))

NulByte ==
    /\ Scanning
    /\ ch = NUL
    /\ Becomes(compile_iteration(code, Cur))

FoldRun ==
    /\ Scanning
    /\ ch \in Repeatable
    /\ count_repeats(code, position, ch) > 1
    /\ Becomes(compile_iteration(code, Cur))

SingleStep ==
    /\ Scanning
    /\ ch \in Repeatable
    /\ count_repeats(code, position, ch) <= 1
    /\ Becomes(compile_iteration(code, Cur))

OutputByte ==
    /\ Scanning
    /\ ch = "."
    /\ Becomes(compile_iteration(code, Cur))

InputByte ==
    /\ Scanning
    /\ ch = ","
    /\ Becomes(compile_iteration(code, Cur))

LoopOpen ==
    /\ Scanning
    /\ ch = "["
    /\ Becomes(compile_iteration(code, Cur))

LoopClose ==
    /\ Scanning
    /\ ch = "]"
    /\ loop_stack_top >= 0
    /\ Becomes(compile_iteration(code, Cur))

UnmatchedClose ==
    /\ Scanning
    /\ ch = "]"
    /\ loop_stack_top < 0
    /\ Becomes(compile_iteration(code, Cur))

UnmatchedOpen ==
    /\ pc = "scan"
    /\ position >= Len(code)
    /\ loop_stack_top >= 0
    /\ Becomes(compile_end(Cur))

EmitFooter ==
    /\ pc = "scan"
    /\ position >= Len(code)
    /\ loop_stack_top < 0
    /\ Becomes(compile_end(Cur))

MainReturn ==
    /\ pc = "compiled"
    /\ Becomes(main_return(Cur))

Next ==
    \/ EmitHeader
    \/ SkipByte
    \/ NulByte
    \/ FoldRun
    \/ SingleStep
    \/ OutputByte
    \/ InputByte
    \/ LoopOpen
    \/ LoopClose
    \/ UnmatchedClose
    \/ UnmatchedOpen
    \/ EmitFooter
    \/ MainReturn

Spec == Init /\ [][Next]_vars

\* the process is sequential and is always scheduled: a step that can be
\* taken is taken
FairSpec == Spec /\ WF_vars(Next)

TypeOK ==
    /\ position \in 0..Len(code)
    /\ label_counter \in Nat
    /\ loop_stack_top \in -1..Len(code)
    /\ pc \in {"start", "scan", "compiled", "exited"}
    /\ exit_status \in {-1, 0, 1}

---------------------------------------------------------------------------
(* Reference notions the properties are stated with *)

\* the bytes compile() has gone past
Processed == SubSeq(code, 1, position)

CountOf(s, b) == Cardinality({i \in 1..Len(s) : s[i] = b})

\* nesting depth after the first k bytes of s
Depth(s, k) ==
    Cardinality({i \in 1..k : s[i] = "["}) - Cardinality({i \in 1..k : s[i] = "]"})

\* the reference bracket matcher: no prefix closes more than it opens, and
\* the totals agree
Balanced(s) ==
    /\ \A k \in 1..Len(s) : Depth(s, k) >= 0
    /\ Depth(s, Len(s)) = 0

\* index of the first ']' that closes more than was opened, 0 if there is none
FirstExcess(s) ==
    IF \E k \in 1..Len(s) : Depth(s, k) < 0
    THEN CHOOSE k \in 1..Len(s) :
            Depth(s, k) < 0 /\ \A j \in 1..(k - 1) : Depth(s, j) >= 0
    ELSE 0

\* the source with every byte that is not one of the 8 instructions removed
IsInstruction(b) == b \in Instructions
Strip(s) == SelectSeq(s, IsInstruction)

Body(out) == SubSeq(out, Len(HeaderLines) + 1, Len(out))

\* some line of the exit sequence that only emit_footer writes is in out
HasFooter(out) ==
    \E i \in 1..Len(out) : out[i] \in {FooterLines[1], FooterLines[2], FooterLines[3]}

---------------------------------------------------------------------------
(* C1 *)

\* C1 (P4, noise is inert): when the source with its non-instruction bytes
\* stripped is a balanced program, the assembly emitted for the source is
\* byte-identical to the assembly emitted for the stripped source.
C1_NoiseInert ==
    (pc = "compiled" /\ Balanced(Strip(code)))
        => output = compile(Strip(code)).output

---------------------------------------------------------------------------
(* C2 *)

\* What the emitted lines do when assembled and run: the data pointer (r12,
\* as an offset from memory) and the bytes of the tape that were written.
\* Every byte of the tape holds z before the first line runs.  A b-suffixed
\* instruction works on one byte: the assembler keeps the low 8 bits of its
\* immediate and the sum wraps modulo 256.  r12 is not bounded here.
ReadCell(st, z) == IF st.ptr \in DOMAIN st.tape THEN st.tape[st.ptr] ELSE z

WriteCell(st, v) ==
    [st EXCEPT !.tape = [a \in (DOMAIN st.tape) \cup {st.ptr} |->
                            IF a = st.ptr THEN v ELSE st.tape[a]]]

ExecLine(line, st, z) ==
    CASE line[1] = "    incb (%r12)         # +" ->
            WriteCell(st, (ReadCell(st, z) + 1) % 256)
      [] line[1] = "    decb (%r12)         # -" ->
            WriteCell(st, (ReadCell(st, z) - 1) % 256)
      [] line[1] = "    incq %r12           # >" -> [st EXCEPT !.ptr = @ + 1]
      [] line[1] = "    decq %r12           # <" -> [st EXCEPT !.ptr = @ - 1]
      [] line[1] = "    addb $%d, (%r12)    # + x%d" ->
            WriteCell(st, (ReadCell(st, z) + (line[2] % 256)) % 256)
      [] line[1] = "    subb $%d, (%r12)    # - x%d" ->
            WriteCell(st, (ReadCell(st, z) - (line[2] % 256)) % 256)
      [] line[1] = "    addq $%d, %r12      # > x%d" -> [st EXCEPT !.ptr = @ + line[2]]
      [] line[1] = "    subq $%d, %r12      # < x%d" -> [st EXCEPT !.ptr = @ - line[2]]
      [] OTHER -> st

\* lines[i..j] run one after the other.  Halving keeps the evaluation
\* shallow; the test on first.ptr has the first half evaluated before the
\* second half starts.
RECURSIVE ExecRange(_, _, _, _, _)
ExecRange(lines, i, j, st, z) ==
    IF i > j THEN st
    ELSE IF i = j THEN ExecLine(lines[i], st, z)
    ELSE LET mid == (i + j) \div 2
             first == ExecRange(lines, i, mid, st, z)
         IN  IF first.ptr \in Int
             THEN ExecRange(lines, mid + 1, j, first, z)
             ELSE first

Exec(lines, z) == ExecRange(lines, 1, Len(lines), [ptr |-> 0, tape |-> <<>>], z)

SameMachine(s1, s2, z) ==
    /\ s1.ptr = s2.ptr
    /\ \A a \in (DOMAIN s1.tape) \cup (DOMAIN s2.tape) :
          ReadCell([s1 EXCEPT !.ptr = a], z) = ReadCell([s2 EXCEPT !.ptr = a], z)

\* the unit instruction compile_instruction emits for each byte of s, one by one
UnitLines(s) ==
    [i \in 1..Len(s) |->
        LET o == compile_instruction(create_compiler, s[i]).output IN o[Len(o)]]

OnlyRepeatable(s) == \A i \in 1..Len(s) : s[i] \in Repeatable

InitialCells == {0, 1, 255}

\* C2 (P1, fold transparency): for a source made only of '+', '-', '>', '<',
\* the lines emitted for the bytes gone past leave every cell (modulo 256)
\* and the pointer as the unit instructions for those bytes, run one by one,
\* leave them; runs of 256 and more included.
C2_FoldTransparent ==
    (OnlyRepeatable(code) /\ pc \in {"scan", "compiled"})
        => \A z \in InitialCells :
              SameMachine(Exec(Body(output), z), Exec(UnitLines(Processed), z), z)

\* a run of at least 256 '+' or '-' was folded into one line
C2_Witness ==
    /\ OnlyRepeatable(code)
    /\ pc = "compiled"
    /\ \E i \in 1..Len(output) :
          /\ Len(output[i]) = 3
          /\ output[i][1] \in {"    addb $%d, (%r12)    # + x%d",
                               "    subb $%d, (%r12)    # - x%d"}
          /\ output[i][2] >= 256

---------------------------------------------------------------------------
(* C3, C4 *)

\* the %d argument of every output line written with format fmt, in order
ArgsOf(out, fmt) ==
    LET sel == SelectSeq(out, LAMBDA l : l[1] = fmt)
    IN  [i \in 1..Len(sel) |-> sel[i][2]]

StartLabels(out) == ArgsOf(out, "loop_start_%d:           # [")
JeLabels(out) == ArgsOf(out, "    je loop_end_%d")
JneLabels(out) == ArgsOf(out, "    jne loop_start_%d    # ]")
EndLabels(out) == ArgsOf(out, "loop_end_%d:")

\* the indices of s that hold byte b, in order
IndicesOf(s, b) == SelectSeq([i \in 1..Len(s) |-> i], LAMBDA i : s[i] = b)

\* the nesting depth after each byte of s, as a sequence computed once
Depths(s) == [k \in 1..Len(s) |-> Depth(s, k)] \o <<>>

\* the '[' a reference matcher pairs with the ']' at index i: the last '['
\* before i that was opened at the depth the ']' returns to; d is Depths(s)
MatchOf(s, d, i) ==
    LET before(j) == IF j = 1 THEN 0 ELSE d[j - 1]
        cand == {j \in 1..(i - 1) : s[j] = "[" /\ before(j) = d[i]}
    IN  CHOOSE j \in cand : \A k \in cand : k <= j

\* the label of the '[' at index j: the number of '[' before it
LabelOf(s, j) == Cardinality({i \in 1..(j - 1) : s[i] = "["})

\* C3 (P2, label uniqueness and pairing): for a balanced source the k-th '['
\* (from 0) defines loop_start_k, so the labels go up by one from 0 in order
\* of '[' and are never reset; no loop_end label is defined twice; and when
\* compilation is complete every loop_start_k has exactly one loop_end_k and
\* there is no other loop_end label.
C3_LabelPairing ==
    Balanced(code) =>
        /\ StartLabels(output) = [k \in 1..CountOf(Processed, "[") |-> k - 1]
        /\ JeLabels(output) = StartLabels(output)
        /\ LET ends == EndLabels(output)
           IN  \A i, j \in 1..Len(ends) : ends[i] = ends[j] => i = j
        /\ pc = "compiled" =>
              /\ Len(EndLabels(output)) = Len(StartLabels(output))
              /\ \A k \in 0..(CountOf(code, "[") - 1) :
                    Cardinality({i \in 1..Len(output) :
                                    output[i] = <<"loop_end_%d:", k>>}) = 1

\* a balanced source with loops nested and in sequence was compiled
C3_Witness ==
    /\ pc = "compiled"
    /\ CountOf(code, "[") = 3
    /\ code[1] = "[" /\ code[2] = "["
    /\ EndLabels(output) # StartLabels(output)

\* C4 (P3, LIFO nesting): the label in the 'jne loop_start_L' and
\* 'loop_end_L:' lines of every ']' gone past is the label of the '[' the
\* reference matcher pairs with that ']', whatever the nesting shape.
C4_LifoNesting ==
    LET closes == IndicesOf(Processed, "]")
        d == Depths(code)
        want == [k \in 1..Len(closes) |-> LabelOf(code, MatchOf(code, d, closes[k]))]
    IN  /\ JneLabels(output) = want
        /\ EndLabels(output) = want

\* siblings inside a parent, [[...][...]], were compiled
C4_Witness ==
    /\ pc = "compiled"
    /\ code = <<"[", "[", "]", "[", "]", "]">>
    /\ JneLabels(output) = <<1, 2, 0>>

---------------------------------------------------------------------------
(* C5, C6, C7 *)

UnmatchedCloseMsg == <<"Error at position %d: %s", 0, "Unmatched ']'">>
UnmatchedOpenMsg == <<"Error at position %d: %s", 0, "Unmatched '['">>

\* the process has ended: no step is left
Terminated == ~ENABLED Next

\* number of output lines written with format fmt
LinesWith(out, fmt) == Cardinality({i \in 1..Len(out) : out[i][1] = fmt})

\* C5 (P5, UnmatchedClose): when some prefix of the source holds more ']'
\* than '[', the run stops at the first such ']', which is the first ']'
\* that finds the loop stack empty: the error is "Unmatched ']'", the exit
\* status is 1, nothing was emitted for that ']', the cursor never goes
\* past it, the footer is never emitted and the run ends nowhere else.
C5_UnmatchedClose ==
    LET f == FirstExcess(code)
    IN  f > 0 =>
          /\ position <= f - 1
          /\ ~HasFooter(output)
          /\ pc # "compiled" /\ exit_status # 0
          /\ (pc = "scan" /\ position < f - 1 /\ code[position + 1] = "]")
                => loop_stack_top >= 0
          /\ (pc = "scan" /\ position = f - 1) => loop_stack_top < 0
          /\ stderr # <<>> =>
                /\ stderr = <<UnmatchedCloseMsg>>
                /\ pc = "exited" /\ exit_status = 1
                /\ position = f - 1
          /\ LinesWith(output, "    jne loop_start_%d    # ]") = CountOf(Processed, "]")
          /\ LinesWith(output, "loop_end_%d:") = CountOf(Processed, "]")
          /\ LinesWith(output, "    cmpb $0, (%r12)")
                = CountOf(Processed, "[") + CountOf(Processed, "]")
          /\ Terminated <=> stderr # <<>>

\* the run stopped at an excess ']' that follows matched loops and other bytes
C5_Witness ==
    /\ pc = "exited"
    /\ stderr = <<UnmatchedCloseMsg>>
    /\ position = 2
    /\ code[1] = "[" /\ code[2] = "]" /\ code[3] = "]"
    /\ Len(code) > 3

\* C6 (UnmatchedOpen): when no prefix holds more ']' than '[' but the whole
\* source holds more '[' than ']', every byte is gone past before the error
\* is raised, the error is "Unmatched '['", raised once, with exit status 1,
\* and the footer is never emitted.
C6_UnmatchedOpen ==
    (FirstExcess(code) = 0 /\ Depth(code, Len(code)) > 0) =>
          /\ ~HasFooter(output)
          /\ pc # "compiled" /\ exit_status # 0
          /\ Len(stderr) <= 1
          /\ stderr # <<>> =>
                /\ stderr = <<UnmatchedOpenMsg>>
                /\ pc = "exited" /\ exit_status = 1
                /\ position = Len(code)
                /\ Len(StartLabels(output)) = CountOf(code, "[")
                /\ Len(EndLabels(output)) = CountOf(code, "]")
          /\ Terminated <=> stderr # <<>>

\* a source with a closed loop and a dangling '[' ended in the error
C6_Witness ==
    /\ pc = "exited"
    /\ stderr = <<UnmatchedOpenMsg>>
    /\ CountOf(code, "]") >= 1
    /\ CountOf(code, "[") >= 2
    /\ position = Len(code)

Success == exit_status = 0 /\ HasFooter(output) /\ stderr = <<>>
FailedClose == exit_status = 1 /\ ~HasFooter(output) /\ stderr = <<UnmatchedCloseMsg>>
FailedOpen == exit_status = 1 /\ ~HasFooter(output) /\ stderr = <<UnmatchedOpenMsg>>

\* C7 (exactly one outcome): a run that has ended is in exactly one of
\* success (footer, status 0), UnmatchedClose and UnmatchedOpen (status 1);
\* it is success exactly when the reference matcher finds the source
\* balanced; at most one error is ever reported; a run that has not ended
\* can take a step.
C7_OneOutcome ==
    /\ Len(stderr) <= 1
    /\ Terminated <=> pc = "exited"
    /\ pc = "exited" =>
          /\ Success \/ FailedClose \/ FailedOpen
          /\ Success <=> Balanced(code)
          /\ FailedClose <=> FirstExcess(code) > 0
          /\ FailedOpen <=> (FirstExcess(code) = 0 /\ Depth(code, Len(code)) > 0)
    /\ pc # "exited" => exit_status = -1

\* a source with an excess ']' and a dangling '[' ended with one error
C7_Witness ==
    /\ pc = "exited"
    /\ FirstExcess(code) > 0
    /\ \E i \in (FirstExcess(code) + 1)..Len(code) : code[i] = "["
    /\ Len(stderr) = 1

---------------------------------------------------------------------------
(* C8 *)

\* the starts of the maximal runs of a repeatable byte in s, in order
RunStarts(s) ==
    SelectSeq([i \in 1..Len(s) |-> i],
              LAMBDA i : s[i] \in Repeatable /\ (i = 1 \/ s[i - 1] # s[i]))

\* the length of the maximal run that starts at i
RunLength(s, i) ==
    Cardinality({j \in i..Len(s) : \A k \in i..j : s[k] = s[i]})

\* the byte and the count an output line for + - > < carries
FoldedOps(out) ==
    LET isOp(l) == l[1] \in {"    incb (%r12)         # +", "    decb (%r12)         # -",
                             "    incq %r12           # >", "    decq %r12           # <",
                             "    addb $%d, (%r12)    # + x%d",
                             "    subb $%d, (%r12)    # - x%d",
                             "    addq $%d, %r12      # > x%d",
                             "    subq $%d, %r12      # < x%d"}
        sel == SelectSeq(out, isOp)
        byte(l) == CASE l[1] \in {"    incb (%r12)         # +",
                                  "    addb $%d, (%r12)    # + x%d"} -> "+"
                     [] l[1] \in {"    decb (%r12)         # -",
                                  "    subb $%d, (%r12)    # - x%d"} -> "-"
                     [] l[1] \in {"    incq %r12           # >",
                                  "    addq $%d, %r12      # > x%d"} -> ">"
                     [] OTHER -> "<"
    IN  [i \in 1..Len(sel) |->
            <<byte(sel[i]), IF Len(sel[i]) = 1 THEN 1 ELSE sel[i][2]>>]

\* C8 (maximal greedy folding): the output lines for + - > < are, in order,
\* one line per maximal run of identical repeatable bytes gone past, each
\* carrying the byte of the run and its full length (both %d of the line);
\* adjacent runs of different bytes stay separate lines; and '+++' compiles
\* to a body that is the single line addb $3.
C8_MaximalFolding ==
    LET starts == SelectSeq(RunStarts(code), LAMBDA i : i <= position)
    IN  /\ FoldedOps(output) =
              [k \in 1..Len(starts) |->
                  <<code[starts[k]], RunLength(code, starts[k])>>]
        /\ \A i \in 1..Len(output) :
              Len(output[i]) = 3 => output[i][2] = output[i][3] /\ output[i][2] > 1
        /\ (code = <<"+", "+", "+">> /\ pc = "compiled") =>
              output = HeaderLines
                         \o << <<"    addb $%d, (%r12)    # + x%d", 3, 3>> >>
                         \o FooterLines

\* a run of three followed at once by a run of another byte was compiled
C8_Witness ==
    /\ pc = "compiled"
    /\ FoldedOps(output) = << <<"+", 3>>, <<"-", 2>>, <<"+", 1>> >>

---------------------------------------------------------------------------
(* C9 *)

\* C9 (. , [ ] are never folded): there is one output block per '.', ',',
\* '[' and ']' gone past, so k of them in a row give k blocks; the labels of
\* the '[' blocks are pairwise distinct and each '[' gone past left one more
\* stack entry than the ']' gone past removed; each such byte moves the
\* cursor by exactly 1 and appends exactly its own block; and ',.' compiles
\* to one read sequence (stdin) followed by one write sequence (stdout).
C9_NeverFolded ==
    /\ [](/\ LinesWith(output, "    movq $1, %rax       # sys_write") = CountOf(Processed, ".")
          /\ LinesWith(output, "    movq $0, %rax       # sys_read") = CountOf(Processed, ",")
          /\ LinesWith(output, "loop_start_%d:           # [") = CountOf(Processed, "[")
          /\ LinesWith(output, "loop_end_%d:") = CountOf(Processed, "]")
          /\ Cardinality({StartLabels(output)[i] : i \in 1..Len(StartLabels(output))})
                = CountOf(Processed, "[")
          /\ label_counter = CountOf(Processed, "[")
          /\ loop_stack_top + 1 = CountOf(Processed, "[") - CountOf(Processed, "]")
          /\ (code = <<",", ".">> /\ pc = "compiled") =>
                Body(output) =
                    << <<"    # Input character (,)">>,
                       <<"    movq $0, %rax       # sys_read">>,
                       <<"    movq $0, %rdi       # stdin">>,
                       <<"    movq %r12, %rsi    # buffer">>,
                       <<"    movq $1, %rdx       # length">>,
                       <<"    syscall">>,
                       <<"    # Output character (.)">>,
                       <<"    movq $1, %rax       # sys_write">>,
                       <<"    movq $1, %rdi       # stdout">>,
                       <<"    movq %r12, %rsi    # buffer">>,
                       <<"    movq $1, %rdx       # length">>,
                       <<"    syscall">> >> \o FooterLines)
    /\ [][(/\ pc = "scan" /\ position < Len(code)
           /\ \/ code[position + 1] \in {".", ",", "["}
              \/ code[position + 1] = "]" /\ loop_stack_top >= 0)
            => /\ pc' = "scan"
               /\ stderr' = stderr
               /\ position' = position + 1
               /\ Len(output') = Len(output)
                    + (IF code[position + 1] \in {".", ","} THEN 6 ELSE 3)
               /\ SubSeq(output', 1, Len(output)) = output
               /\ code[position + 1] = "["
                    => /\ label_counter' = label_counter + 1
                       /\ loop_stack_top' = loop_stack_top + 1
                       /\ loop_stack'[loop_stack_top'] = label_counter
                       /\ output'[Len(output) + 1]
                            = <<"loop_start_%d:           # [", label_counter>>
               /\ code[position + 1] = "]"
                    => /\ label_counter' = label_counter
                       /\ loop_stack_top' = loop_stack_top - 1
                       /\ output'[Len(output')]
                            = <<"loop_end_%d:", loop_stack[loop_stack_top]>>]_vars

\* three '[' in a row were gone past: three labels, three stack entries
C9_Witness ==
    /\ pc = "scan"
    /\ position = 3
    /\ code[1] = "[" /\ code[2] = "[" /\ code[3] = "["
    /\ StartLabels(output) = <<0, 1, 2>>
    /\ loop_stack_top = 2

---------------------------------------------------------------------------
(* C10 *)

\* C10 (a skipped byte changes only the cursor): when the byte at the cursor
\* is none of the 8 instructions (the zero byte included), the step writes
\* no output, leaves label_counter and the loop stack as they are, raises no
\* error, and moves the cursor by exactly 1.
C10_SkipFrame ==
    [][(pc = "scan" /\ position < Len(code) /\ code[position + 1] \notin Instructions)
        => /\ position' = position + 1
           /\ output' = output
           /\ label_counter' = label_counter
           /\ loop_stack' = loop_stack
           /\ loop_stack_top' = loop_stack_top
           /\ loop_stack_size' = loop_stack_size
           /\ stderr' = stderr
           /\ pc' = "scan"
           /\ exit_status' = exit_status]_vars

\* a zero byte and another non-instruction byte were skipped inside a loop
C10_Witness ==
    /\ pc = "scan"
    /\ position = 3
    /\ code[1] = "[" /\ code[2] = NUL /\ code[3] = "x"
    /\ loop_stack_top = 0
    /\ Len(output) = Len(HeaderLines) + 3

---------------------------------------------------------------------------
(* C11 *)

\* the source indices up to pos that a block of output is written for: every
\* '.', ',', '[', ']' and the first byte of every run of a repeatable byte
BlockOrigins(s, pos) ==
    SelectSeq([i \in 1..Len(s) |-> i],
              LAMBDA i : /\ i <= pos
                         /\ \/ s[i] \in {".", ",", "[", "]"}
                            \/ s[i] \in Repeatable /\ (i = 1 \/ s[i - 1] # s[i]))

\* the source byte of each block of out, in order, read off the line that
\* only a block of that byte holds
BlockKinds(out) ==
    LET kind(l) ==
            CASE l[1] \in {"    incb (%r12)         # +",
                           "    addb $%d, (%r12)    # + x%d"} -> "+"
              [] l[1] \in {"    decb (%r12)         # -",
                           "    subb $%d, (%r12)    # - x%d"} -> "-"
              [] l[1] \in {"    incq %r12           # >",
                           "    addq $%d, %r12      # > x%d"} -> ">"
              [] l[1] \in {"    decq %r12           # <",
                           "    subq $%d, %r12      # < x%d"} -> "<"
              [] l[1] = "    # Output character (.)" -> "."
              [] l[1] = "    # Input character (,)" -> ","
              [] l[1] = "loop_start_%d:           # [" -> "["
              [] l[1] = "    jne loop_start_%d    # ]" -> "]"
              [] OTHER -> "none"
        sel == SelectSeq(out, LAMBDA l : kind(l) # "none")
    IN  [i \in 1..Len(sel) |-> kind(sel[i])]

Succeeded == pc = "compiled" \/ (pc = "exited" /\ exit_status = 0)

\* C11 (append-only ordered emission): every step leaves what was written
\* as a prefix of the output; the header is written once, before anything
\* else; the blocks of the body are in the order of the source bytes they
\* translate; the footer is written only on success, once, after the last
\* block, and nothing is written after it.
C11_AppendOnly ==
    /\ [](/\ pc = "start" => output = <<>>
          /\ pc # "start" =>
                /\ SubSeq(output, 1, Len(HeaderLines)) = HeaderLines
                /\ LinesWith(output, "_start:") = 1
                /\ LinesWith(output, "    leaq memory(%rip), %r12") = 1
                /\ LinesWith(output, "    .section .data") = 1
          /\ LET origins == BlockOrigins(code, position)
             IN  BlockKinds(output) = [k \in 1..Len(origins) |-> code[origins[k]]]
          /\ HasFooter(output) <=> Succeeded
          /\ Succeeded =>
                /\ SubSeq(output, Len(output) - Len(FooterLines) + 1, Len(output))
                      = FooterLines
                /\ ~HasFooter(SubSeq(output, 1, Len(output) - Len(FooterLines))))
    /\ [][/\ Len(output') >= Len(output)
          /\ SubSeq(output', 1, Len(output)) = output
          /\ HasFooter(output) => output' = output]_vars

\* a program with several loops and runs was compiled and main returned
C11_Witness ==
    /\ pc = "exited"
    /\ exit_status = 0
    /\ Len(BlockKinds(output)) >= 8
    /\ CountOf(code, "[") >= 2

---------------------------------------------------------------------------
(* C12 *)

\* C12 (stack depth equals nesting depth): at every scan position reached
\* without an error the loop stack holds as many entries as there are '['
\* minus ']' among the bytes gone past, and that number is never negative.
C12_DepthIsNesting ==
    stderr = <<>> =>
        /\ loop_stack_top + 1 = Depth(code, position)
        /\ loop_stack_top + 1 >= 0

\* inside two open loops, after a third loop was opened and closed
C12_Witness ==
    /\ pc = "scan"
    /\ position = 4
    /\ code[1] = "[" /\ code[2] = "[" /\ code[3] = "[" /\ code[4] = "]"
    /\ loop_stack_top = 1

---------------------------------------------------------------------------
(* C13 *)

\* C13 (cursor synchronisation and termination): every iteration of the scan
\* moves the cursor forward, by the count of the folded line it wrote, which
\* is the length of the run at the cursor, and by 1 otherwise; the cursor
\* never moves back and never passes the end of the source, so each byte is
\* covered by one iteration; the scan ends with the cursor at the end of
\* the source; and every run of the program terminates.
C13_CursorSync ==
    /\ [](position >= 0 /\ position <= Len(code))
    /\ [](pc = "compiled" => position = Len(code))
    /\ [][position' >= position]_vars
    /\ [][(pc = "scan" /\ position < Len(code) /\ pc' = "scan") =>
            LET new == SubSeq(output', Len(output) + 1, Len(output'))
                folded == Len(new) = 1 /\ Len(new[1]) = 3
            IN  /\ position' > position
                /\ position' <= Len(code)
                /\ position' - position = (IF folded THEN new[1][2] ELSE 1)
                /\ position' - position =
                      (IF code[position + 1] \in Repeatable
                       THEN RunLength(code, position + 1) ELSE 1)]_vars
    /\ <>(pc = "exited")

\* a skipped byte, then a run of three folded in one iteration
C13_Witness ==
    /\ pc = "scan"
    /\ position = 4
    /\ Len(code) > 4
    /\ code[1] = "x" /\ code[2] = "+" /\ code[3] = "+" /\ code[4] = "+"
    /\ Len(output) = Len(HeaderLines) + 1

---------------------------------------------------------------------------
(* C14 *)

\* The emitted body run as x86-64 code.  A machine is the index li of the
\* next line, the pointer r12 (as an offset from memory), the tape (all
\* zero at _start) and the zero flag.  A label line does nothing; cmpb $0
\* sets the zero flag from the byte at the pointer; je and jne jump to the
\* line that defines their label (to line 0, which holds nothing, when no
\* line defines it).
LabelLine(lines, fmt, n) ==
    IF \E i \in 1..Len(lines) : lines[i] = <<fmt, n>>
    THEN CHOOSE i \in 1..Len(lines) : lines[i] = <<fmt, n>>
    ELSE 0

AsmHalted(lines, st) ==
    \/ st.li < 1 \/ st.li > Len(lines)
    \/ lines[st.li] = FooterLines[1]

AsmLine(lines, st) ==
    LET l == lines[st.li]
    IN  CASE l[1] = "    cmpb $0, (%r12)" ->
                [st EXCEPT !.zf = (ReadCell(st, 0) = 0), !.li = @ + 1]
          [] l[1] = "    je loop_end_%d" ->
                [st EXCEPT !.li = IF st.zf
                                  THEN LabelLine(lines, "loop_end_%d:", l[2])
                                  ELSE @ + 1]
          [] l[1] = "    jne loop_start_%d    # ]" ->
                [st EXCEPT !.li = IF ~st.zf
                                  THEN LabelLine(lines, "loop_start_%d:           # [", l[2])
                                  ELSE @ + 1]
          [] OTHER -> [ExecLine(l, st, 0) EXCEPT !.li = @ + 1]

\* line i starts the block of a source instruction
BlockStart(lines, i) ==
    \/ lines[i][1] \in {"    incb (%r12)         # +", "    decb (%r12)         # -",
                        "    incq %r12           # >", "    decq %r12           # <",
                        "    addb $%d, (%r12)    # + x%d",
                        "    subb $%d, (%r12)    # - x%d",
                        "    addq $%d, %r12      # > x%d",
                        "    subq $%d, %r12      # < x%d",
                        "loop_start_%d:           # ["}
    \/ /\ lines[i][1] = "    cmpb $0, (%r12)"
       /\ i < Len(lines)
       /\ lines[i + 1][1] = "    jne loop_start_%d    # ]"

AtBoundary(lines, st) == AsmHalted(lines, st) \/ BlockStart(lines, st.li)

\* one line, then on to the next instruction boundary (a block has at most
\* three lines, and a jump taken lands on one more label line)
AsmBig(lines, st) ==
    LET a1 == AsmLine(lines, st)
        a2 == IF AtBoundary(lines, a1) THEN a1 ELSE AsmLine(lines, a1)
        a3 == IF AtBoundary(lines, a2) THEN a2 ELSE AsmLine(lines, a2)
    IN  IF AtBoundary(lines, a3) THEN a3 ELSE AsmLine(lines, a3)

\* the source index whose block starts at line li; past the end when halted
SrcOf(s, lines, st) ==
    IF AsmHalted(lines, st) \/ ~BlockStart(lines, st.li)
    THEN Len(s) + 1
    ELSE LET origins == BlockOrigins(s, Len(s))
             rank == Cardinality({i \in 1..st.li : BlockStart(lines, i)})
         IN  IF rank \in 1..Len(origins) THEN origins[rank] ELSE 0

\* The reference interpreter of the source, byte by byte: d is Depths(s).
\* '[' on a zero cell goes past its matching ']'; ']' on a non-zero cell
\* goes back to its matching '['; every other byte goes on to the next.
MatchClose(s, d, i) ==
    LET before == IF i = 1 THEN 0 ELSE d[i - 1]
        cand == {j \in (i + 1)..Len(s) : s[j] = "]" /\ d[j] = before}
    IN  CHOOSE j \in cand : \A k \in cand : j <= k

RefStep(s, d, st) ==
    LET b == s[st.ip]
    IN  CASE b = "+" -> [WriteCell(st, (ReadCell(st, 0) + 1) % 256) EXCEPT !.ip = @ + 1]
          [] b = "-" -> [WriteCell(st, (ReadCell(st, 0) - 1) % 256) EXCEPT !.ip = @ + 1]
          [] b = ">" -> [st EXCEPT !.ptr = @ + 1, !.ip = @ + 1]
          [] b = "<" -> [st EXCEPT !.ptr = @ - 1, !.ip = @ + 1]
          [] b = "[" -> [st EXCEPT !.ip = IF ReadCell(st, 0) = 0
                                          THEN MatchClose(s, d, st.ip) + 1
                                          ELSE @ + 1]
          [] b = "]" -> [st EXCEPT !.ip = IF ReadCell(st, 0) # 0
                                          THEN MatchOf(s, d, st.ip)
                                          ELSE @ + 1]
          [] OTHER -> [st EXCEPT !.ip = @ + 1]

\* n steps of the reference interpreter (the first half is evaluated before
\* the second half starts)
RECURSIVE RefRun(_, _, _, _)
RefRun(s, d, st, n) ==
    IF n <= 0 THEN st
    ELSE IF n = 1 THEN RefStep(s, d, st)
    ELSE LET first == RefRun(s, d, st, n \div 2)
         IN  IF first.ip \in Int
             THEN RefRun(s, d, first, n - (n \div 2))
             ELSE first

\* the first index from ip on where an emitted instruction starts, or the end
NextBoundary(s, ip) ==
    LET at == {i \in ip..Len(s) :
                  \/ s[i] \in {".", ",", "[", "]"}
                  \/ s[i] \in Repeatable /\ (i = 1 \/ s[i - 1] # s[i])}
    IN  IF at = {} THEN Len(s) + 1 ELSE CHOOSE i \in at : \A k \in at : i <= k

\* one byte, then on to the next instruction boundary: the rest of the run
\* and the bytes that are no instruction
RefBig(s, d, st) ==
    LET s1 == RefStep(s, d, st)
    IN  RefRun(s, d, s1, NextBoundary(s, s1.ip) - s1.ip)

OnTape(st) == st.ptr >= 0 /\ st.ptr < MEMORY_SIZE

\* the two machines agree at this boundary and at the next fuel boundaries
RECURSIVE Simulates(_, _, _, _, _)
Simulates(s, d, lines, pair, fuel) ==
    /\ pair.ref.ip = SrcOf(s, lines, pair.asm)
    /\ SameMachine(pair.ref, pair.asm, 0)
    /\ \/ fuel = 0
       \/ pair.ref.ip > Len(s)
       \/ ~OnTape(pair.ref)
       \/ Simulates(s, d, lines,
                    [ref |-> RefBig(s, d, pair.ref), asm |-> AsmBig(lines, pair.asm)],
                    fuel - 1)

\* C14 (the loop scheme is correct): for a compiled program without '.' and
\* ',', the emitted body, run as x86-64 code from _start on a zeroed tape,
\* is at every instruction boundary at the place in the source, with the
\* pointer and the tape, of the reference interpreter, for MaxSteps
\* instructions or until the program ends or leaves the tape; and every
\* label a je or jne names is defined by exactly one line.
C14_LoopScheme ==
    (pc = "compiled" /\ CountOf(code, ".") = 0 /\ CountOf(code, ",") = 0) =>
        LET lines == Body(output)
            d == Depths(code)
        IN  /\ \A i \in 1..Len(lines) :
                  /\ lines[i][1] = "    je loop_end_%d" =>
                        Cardinality({j \in 1..Len(lines) :
                            lines[j] = <<"loop_end_%d:", lines[i][2]>>}) = 1
                  /\ lines[i][1] = "    jne loop_start_%d    # ]" =>
                        Cardinality({j \in 1..Len(lines) :
                            lines[j] = <<"loop_start_%d:           # [", lines[i][2]>>}) = 1
            /\ Simulates(code, d, lines,
                         [ref |-> [ip |-> NextBoundary(code, 1), ptr |-> 0, tape |-> <<>>],
                          asm |-> [li |-> 1, ptr |-> 0, tape |-> <<>>, zf |-> FALSE]],
                         MaxSteps)

\* a program whose loops run and end, with sibling loops inside a parent
C14_Witness ==
    /\ pc = "compiled"
    /\ code = <<"+", "[", "[", "-", "]", "+", "+", "[", "-", "]", "]">>
    /\ LET fin == RefRun(code, Depths(code), [ip |-> 1, ptr |-> 0, tape |-> <<>>], 14)
       IN  fin.ip = Len(code) + 1 /\ ReadCell(fin, 0) = 0

---------------------------------------------------------------------------
(* C15 *)

\* C15 (counter and stack contents): label_counter is the number of '[' gone
\* past and never decreases; the entries of the loop stack (slots 0 to
\* loop_stack_top) increase strictly from bottom to top, so they are
\* pairwise distinct, and each is a label already allocated; a ']' removes
\* the top entry only and leaves label_counter and the entries below as
\* they are.
C15_CounterAndStack ==
    /\ [](/\ label_counter = CountOf(Processed, "[")
          /\ \A i \in 0..loop_stack_top :
                loop_stack[i] >= 0 /\ loop_stack[i] < label_counter
          /\ \A i, j \in 0..loop_stack_top :
                i < j => loop_stack[i] < loop_stack[j])
    /\ [][label_counter' >= label_counter]_vars
    /\ [][(/\ pc = "scan" /\ position < Len(code)
           /\ code[position + 1] = "]" /\ loop_stack_top >= 0)
            => /\ loop_stack_top' = loop_stack_top - 1
               /\ label_counter' = label_counter
               /\ \A i \in 0..(loop_stack_top - 1) : loop_stack'[i] = loop_stack[i]]_vars

\* a loop was closed and another opened inside a parent: entries 0 and 2
C15_Witness ==
    /\ pc = "scan"
    /\ position = 4
    /\ loop_stack_top = 1
    /\ loop_stack[0] = 0 /\ loop_stack[1] = 2
    /\ label_counter = 3

---------------------------------------------------------------------------
(* C16 *)

\* C16 (stack storage bounds): loop_stack_top stays between -1 and
\* loop_stack_size - 1, and every slot written or read lies inside the
\* capacity; the capacity is 100 at the start and only ever doubles; it
\* doubles exactly in a push that finds the stack full; and the entries on
\* the stack keep their values and order across a doubling.
C16_StorageBounds ==
    /\ [](/\ loop_stack_top >= -1
          /\ loop_stack_top <= loop_stack_size - 1
          /\ \A i \in DOMAIN loop_stack : i >= 0 /\ i <= loop_stack_size - 1
          /\ \A i \in 0..loop_stack_top : i \in DOMAIN loop_stack
          /\ pc = "start" => loop_stack_size = 100
          /\ \E k \in 0..8 : loop_stack_size = 100 * (2 ^ k))
    /\ [][/\ loop_stack_size' \in {loop_stack_size, 2 * loop_stack_size}
          /\ loop_stack_size' = 2 * loop_stack_size
                <=> (/\ pc = "scan" /\ position < Len(code)
                     /\ code[position + 1] = "["
                     /\ loop_stack_top = loop_stack_size - 1)
          /\ loop_stack_size' # loop_stack_size
                => /\ loop_stack_top' = loop_stack_top + 1
                   /\ \A i \in 0..loop_stack_top :
                         loop_stack'[i] = loop_stack[i]]_vars

\* the 101st '[' doubled the capacity and the entries below kept their values
C16_Witness ==
    /\ loop_stack_size = 200
    /\ loop_stack_top = 100
    /\ loop_stack[0] = 0 /\ loop_stack[99] = 99 /\ loop_stack[100] = 100

=============================================================================
